---- MODULE Spec2Model ----
(***************************************************************************)
(* The credit ledger of open_webui (backend/open_webui/models/credits.py): *)
(* the three tables credit, credit_log and trade_ticket, and the methods   *)
(* of CreditsTable, TradeTicketTable and CreditLogTable, run by concurrent *)
(* request handlers.  Every method is cut at its database statements: a    *)
(* SELECT, an INSERT with its commit, the UPDATE of a row (which takes the *)
(* row's lock until the transaction ends) and the COMMIT are the atomic    *)
(* steps, and callers interleave between them.                             *)
(*                                                                         *)
(* Decimal values are integers counting tenths of the smallest value a     *)
(* Numeric(24, 12) column holds, so that a value with a thirteenth         *)
(* fractional digit exists and the column's rounding is not the identity.  *)
(* The timestamps of a credit row (created_at, updated_at) are read by no  *)
(* method and are left out.                                                *)
(***************************************************************************)
EXTENDS Integers, Sequences, FiniteSets, TLC

\* ------------------------------------------------------------ bounds
\* number of concurrent request handlers
NumProcs == 2
\* number of calls made in one behaviour
MaxOps == 3
\* last second the clock reaches (it starts at 0)
MaxTime == 1

\* ------------------------------------------------------------ values
\* 10^-12, the step of a Numeric(precision=24, scale=12) column
Unit == 10

Procs == 1 .. NumProcs
Users == {"u1", "u2"}
FirstUser == "u1"
TicketIds == {"t1"}
\* values of CREDIT_DEFAULT_CREDIT: 0, 4 * 10^-13 and 10^-12
DefaultCredits == {0, 4, Unit}
\* SetCreditForm.credit
SetCredits == {0, Unit}
\* AddCreditForm.amount
AddAmounts == {Unit, 0 - Unit}
\* amount of insert_new_ticket
TicketAmounts == {2 * Unit}
\* detail of update_credit_by_id
ProviderDetails == {"success", "closed"}

\* a CreditModel (user_id, credit), or None
NoneModel == [some |-> FALSE, user_id |-> "", credit |-> 0]
SomeModel(user_id, v) == [some |-> TRUE, user_id |-> user_id, credit |-> v]
NoLog == [user_id |-> "", credit |-> 0, desc |-> "", created_at |-> 0,
          op |-> "", amount |-> 0, id |-> ""]
NoTxn == [log |-> NoLog, upd |-> FALSE]
\* metadata of check_credit_by_user_id: None, or a dict whose keys chat_id,
\* message_id and id are there (a value) or not ("")
NoMetadata == [is_dict |-> FALSE, chat_id |-> "", message_id |-> "", id |-> ""]
Metadatas ==
    {NoMetadata} \cup
    [is_dict : {TRUE}, chat_id : {"", "c1"}, message_id : {"", "m1"}, id : {"", "m2"}]
\* offset and limit of get_credit_log_by_user_id: an int, or None
None == -1
Offsets == {None, 0, 1}
Limits == {None, 0, 1}
NoForm == [user_id |-> "", credit |-> 0, amount |-> 0, id |-> "", detail |-> "",
           metadata |-> NoMetadata, offset |-> None, limit |-> None, user_ids |-> {}]

\* what a call gave back: a model, None, a raised HTTPException
ReturnModel(m) ==
    [kind |-> IF m.some THEN "model" ELSE "none", user_id |-> m.user_id, val |-> m.credit]
ReturnNone == [kind |-> "none", user_id |-> "", val |-> 0]
Raise(status) == [kind |-> "error", user_id |-> "", val |-> status]

\* A Numeric(24, 12) column keeps twelve fractional digits: the value is
\* rounded to the nearest multiple of Unit (half away from zero).
Quantize(v) ==
    IF v >= 0 THEN ((2 * v + Unit) \div (2 * Unit)) * Unit
    ELSE 0 - (((2 * (0 - v) + Unit) \div (2 * Unit)) * Unit)

VARIABLES
    credit,                \* table credit: its rows (user_id, credit), as inserted
    credit_log,            \* table credit_log, in insertion order
    trade_ticket,          \* table trade_ticket: id -> row
    CREDIT_DEFAULT_CREDIT, \* the configured default
    now,                   \* int(time.time()) as last read
    pc,                    \* where each handler stands
    op,                    \* the method each handler was called with
    form_data,             \* its arguments
    credit_model,          \* what init_credit_by_user_id gave it
    txn,                   \* the statements of its open transaction
    result,                \* what the method gave back
    logs,                  \* what get_credit_log_by_user_id gave back
    credits,               \* what list_credits_by_user_id gave back
    chat,                  \* the messages of the chats that carry an error
    started,               \* calls started so far
    touched,               \* users an init, set, add or check has got past its init for
    writes,                \* per user, the committed updates of the credit row
    completed,             \* per user, the set, add and settlement credits that returned
    EZFP_PID,              \* the configured merchant id
    payload,               \* the dict the EZFP client works on
    signed,                \* the dict as sign returned it
    ua,                    \* a User-Agent header
    ez_pc,                 \* where the caller of the EZFP client stands
    out,                   \* what the EZFP client gave back
    client,                \* the httpx.AsyncClient of create_trade
    redis_client,          \* whether there is a Redis connection
    ENHANCED_JWT_MAX_COUNT, \* the configured number of tokens per user
    redis,                 \* the hash of each key: token -> str(time_ns) of its hset
    time_ns,               \* time.time_ns() as last read
    jwt_pc,                \* where each caller of check_jwt_max_count stands
    to_remove,             \* the tokens it is about to hdel
    jwt_out,               \* the token it was called with, and what it gave back
    registered,            \* per user, the tokens in the order of their last set_jwt_token
    refused                \* the tokens a check has refused

tables == <<credit, credit_log, trade_ticket, chat>>
locals == <<pc, op, form_data, credit_model, txn, result, logs, credits>>
history == <<touched, writes, completed>>
ezfp == <<EZFP_PID, payload, signed, ua, ez_pc, out, client>>
jwt == <<redis_client, ENHANCED_JWT_MAX_COUNT, redis, time_ns, jwt_pc, to_remove, jwt_out,
         registered, refused>>
vars == <<credit, credit_log, trade_ticket, CREDIT_DEFAULT_CREDIT, ezfp, jwt, now,
          pc, op, form_data, credit_model, txn, result, logs, credits, chat, started,
          touched, writes, completed,
          EZFP_PID, payload, signed, ua, ez_pc, out, client,
          redis_client, ENHANCED_JWT_MAX_COUNT, redis, time_ns, jwt_pc, to_remove, jwt_out,
          registered, refused>>

\* ------------------------------------------------------------ EZFP values
\* A value of a dict: a str or an int, with the text str() gives it.
StrVal(text) == [type |-> "str", text |-> text]
IntVal(text) == [type |-> "int", text |-> text]
\* the dict {}
EmptyDict == [k \in {} |-> StrVal("")]
\* what a method of the client gave back: a value, or an exception
NoOut == [kind |-> "none", val |-> "", msg |-> ""]
Returns(val) == [kind |-> "return", val |-> val, msg |-> ""]
Raises(exception) == [kind |-> "raise", val |-> exception, msg |-> ""]
\* the EZFP client is not in use
EzfpOff ==
    /\ EZFP_PID = StrVal("1001")
    /\ payload = EmptyDict /\ signed = EmptyDict /\ ua = <<>>
    /\ ez_pc = "off" /\ out = NoOut /\ client = "none"

\* ------------------------------------------------------------ JWT values
\* time.time_ns() when the first token is set: a number of as many digits as
\* every later one
Epoch == 10
\* the users that sign in, and the exp of their tokens (0: none)
JwtUsers == {"u1", "u2"}
Exps == {0, 1, 2}
\* create_token({"id": id}, expires_delta): the JWT of a payload (id, exp)
Tokens == {t \in [id : JwtUsers, exp : Exps] : t.id = "u2" => t.exp = 0}
NoToken == [id |-> "", exp |-> 0]
\* jwt_cache_key
jwt_cache_key(id) == "enhanced:jwt:" \o id
\* the hash {}
EmptyHash == [t \in {} |-> <<>>]
\* check_jwt_max_count and set_jwt_token are not in use
JwtOff ==
    /\ redis_client = FALSE
    /\ ENHANCED_JWT_MAX_COUNT = 0
    /\ redis = [k \in {jwt_cache_key(u) : u \in JwtUsers} |-> EmptyHash]
    /\ time_ns = Epoch
    /\ jwt_pc = [p \in Procs |-> "off"]
    /\ to_remove = [p \in Procs |-> {}]
    /\ jwt_out = [p \in Procs |-> [token |-> NoToken, data |-> "none"]]
    /\ registered = [u \in JwtUsers |-> <<>>]
    /\ refused = {}

Init ==
    /\ credit = <<>>
    /\ credit_log = <<>>
    /\ trade_ticket = [t \in {} |-> NoForm]
    /\ CREDIT_DEFAULT_CREDIT \in DefaultCredits
    /\ now = 0
    /\ pc = [p \in Procs |-> "idle"]
    /\ op = [p \in Procs |-> ""]
    /\ form_data = [p \in Procs |-> NoForm]
    /\ credit_model = [p \in Procs |-> NoneModel]
    /\ txn = [p \in Procs |-> NoTxn]
    /\ result = [p \in Procs |-> ReturnNone]
    /\ logs = [p \in Procs |-> <<>>]
    /\ credits = [p \in Procs |-> <<>>]
    /\ chat = {}
    /\ started = 0
    /\ touched = {}
    /\ writes = [u \in Users |-> 0]
    /\ completed = [u \in Users |-> 0]
    /\ EzfpOff
    /\ JwtOff

\* ------------------------------------------------------------ calls
FirstStep(o) ==
    CASE o = "get" -> "get"
      [] o = "credits" -> "credits"
      [] o = "ticket" -> "ticket"
      [] o = "list" -> "list"
      [] o = "create" -> "create"
      [] o = "settle" -> "st_update"
      [] OTHER -> "init_get"

Forms(o) ==
    CASE o \in {"init", "get", "check"} ->
            {[NoForm EXCEPT !.user_id = u] : u \in Users}
      [] o = "credits" ->
            {[NoForm EXCEPT !.user_ids = ids] : ids \in SUBSET Users}
      [] o = "ticket" ->
            {[NoForm EXCEPT !.id = t] : t \in TicketIds}
      [] o = "list" ->
            {[NoForm EXCEPT !.user_id = u, !.offset = i, !.limit = n] :
                u \in Users, i \in Offsets, n \in Limits}
      [] o = "set" ->
            {[NoForm EXCEPT !.user_id = u, !.credit = c] : u \in Users, c \in SetCredits}
      [] o = "add" ->
            {[NoForm EXCEPT !.user_id = u, !.amount = a] : u \in Users, a \in AddAmounts}
      [] o = "create" ->
            {[NoForm EXCEPT !.user_id = u, !.amount = a, !.id = t, !.detail = "created"] :
                u \in Users, a \in TicketAmounts, t \in TicketIds}
      [] o = "settle" ->
            {[NoForm EXCEPT !.id = t, !.detail = d] : t \in TicketIds, d \in ProviderDetails}

Ops == {"init", "get", "credits", "set", "add", "check", "list", "create", "ticket",
        "settle"}

\* The call of a handler is over: it holds what the method gave back.
Return(p, r) ==
    /\ pc' = [pc EXCEPT ![p] = "done"]
    /\ result' = [result EXCEPT ![p] = r]
    /\ form_data' = [form_data EXCEPT ![p] = NoForm]
    /\ credit_model' = [credit_model EXCEPT ![p] = NoneModel]

\* The handler moves on inside its method.
Goto(p, label) ==
    /\ pc' = [pc EXCEPT ![p] = label]
    /\ UNCHANGED <<result, form_data, credit_model>>

\* A request handler is given its next call.  Handlers and users are
\* interchangeable, so of the behaviours that differ only in their names one
\* is kept: a handler is first used after the one before it, and the first
\* call that names a user names the first one.
Start(p) ==
    /\ pc[p] \in {"idle", "done"}
    /\ IF p = 1 THEN TRUE ELSE pc[p - 1] # "idle"
    /\ started < MaxOps
    /\ \E o \in Ops : \E f \in Forms(o) :
        /\ started = 0 => f.user_id \in {"", FirstUser}
        /\ started = 0 => (f.user_ids = {} \/ FirstUser \in f.user_ids)
        /\ op' = [op EXCEPT ![p] = o]
        /\ form_data' = [form_data EXCEPT ![p] = f]
        /\ pc' = [pc EXCEPT ![p] = FirstStep(o)]
    /\ started' = started + 1
    /\ result' = [result EXCEPT ![p] = ReturnNone]
    /\ logs' = [logs EXCEPT ![p] = <<>>]
    /\ credits' = [credits EXCEPT ![p] = <<>>]
    /\ UNCHANGED <<tables, CREDIT_DEFAULT_CREDIT, ezfp, jwt, now, credit_model, txn, history>>

\* The rows of credit with the user_id, by position.
Rows(user_id) == {i \in DOMAIN credit : credit[i].user_id = user_id}

\* db.query(Credit).filter(Credit.user_id == user_id).first(), validated:
\* the row's model, or None when there is no row.
QueryCredit(user_id) ==
    IF Rows(user_id) = {} THEN NoneModel
    ELSE LET i == CHOOSE i \in Rows(user_id) : \A j \in Rows(user_id) : i <= j
         IN SomeModel(user_id, credit[i].credit)

\* A get that creates the row it does not find, as init_credit_by_user_id does.
get_or_insert(p) ==
    /\ pc[p] = "get"
    /\ LET user_id == form_data[p].user_id IN
        IF Rows(user_id) = {}
        THEN /\ credit' = Append(credit, [user_id |-> user_id,
                                          credit |-> Quantize(CREDIT_DEFAULT_CREDIT)])
             /\ Return(p, ReturnModel(SomeModel(user_id, Quantize(CREDIT_DEFAULT_CREDIT))))
        ELSE /\ Return(p, ReturnModel(QueryCredit(user_id)))
             /\ UNCHANGED credit
    /\ UNCHANGED <<credit_log, trade_ticket, chat, CREDIT_DEFAULT_CREDIT, ezfp, jwt, now, op,
                   txn, logs, credits, started, history>>

\* get_credit_by_user_id, called on its own
get_credit_by_user_id(p) ==
    /\ pc[p] = "get"
    /\ Return(p, ReturnModel(QueryCredit(form_data[p].user_id)))
    /\ UNCHANGED <<tables, CREDIT_DEFAULT_CREDIT, ezfp, jwt, now, op, txn, logs, credits, started,
                   history>>

\* filter(Credit.user_id.in_(user_ids)): the rows of credit of these users,
\* by position
RowsIn(user_ids) == {i \in DOMAIN credit : credit[i].user_id \in user_ids}

\* .all() with no ORDER BY: the rows in every order
All(rows) ==
    {s \in [1 .. Cardinality(rows) -> rows] : \A i, j \in DOMAIN s : i # j => s[i] # s[j]}

\* list_credits_by_user_id: the models of the rows found, and no row written
list_credits_by_user_id(p) ==
    /\ pc[p] = "credits"
    /\ \E s \in All(RowsIn(form_data[p].user_ids)) :
          credits' = [credits EXCEPT ![p] =
                         [i \in DOMAIN s |-> SomeModel(credit[s[i]].user_id, credit[s[i]].credit)]]
    /\ Return(p, ReturnNone)
    /\ UNCHANGED <<tables, CREDIT_DEFAULT_CREDIT, ezfp, jwt, now, op, txn, logs, started, history>>

\* What follows init_credit_by_user_id in the method that called it.
AfterInit(o) ==
    CASE o = "init" -> "done"
      [] o = "check" -> "annotate"
      [] OTHER -> "log"

\* What a method gives back when an exception leaves it: update_credit_by_id
\* catches every exception and returns None, the others let it through.
Failed(o, status) == IF o = "settle" THEN ReturnNone ELSE Raise(status)

\* init_credit_by_user_id has a model m: it returns it to its caller.
InitReturns(p, m) ==
    IF op[p] = "init"
    THEN Return(p, ReturnModel(m))
    ELSE /\ pc' = [pc EXCEPT ![p] = AfterInit(op[p])]
         /\ credit_model' = [credit_model EXCEPT ![p] = m]
         /\ UNCHANGED <<result, form_data>>

\* init_credit_by_user_id, first half: get_credit_by_user_id(user_id).
\* A row that is there is returned as it is.
init_get(p) ==
    /\ pc[p] = "init_get"
    /\ LET m == QueryCredit(form_data[p].user_id) IN
        IF m.some
        THEN /\ InitReturns(p, m)
             /\ touched' = touched \cup {form_data[p].user_id}
        ELSE /\ Goto(p, "init_insert")
             /\ UNCHANGED touched
    /\ UNCHANGED <<tables, CREDIT_DEFAULT_CREDIT, ezfp, jwt, now, op, txn, logs, credits, started,
                   writes, completed>>

\* A new row left at the 0 of CreditModel.credit.
NewRowCreditZero(default) == 0

\* The credit a new row is stored with.
NewRowCredit(default) == Quantize(default)

\* The model insert_new_credit returns: the one it built, not the row.
NewRowModel(user_id, default) == SomeModel(user_id, default)

\* A column user_id without unique=True.
NoUniqueConstraint(user_id) == FALSE

\* user_id = Column(String, unique=True): the INSERT of a row for a user
\* that has one fails.
UniqueViolation(user_id) == Rows(user_id) # {}

\* What init_credit_by_user_id does when insert_new_credit returned None.
InitFailed(o) == Failed(o, 500)

\* init_credit_by_user_id, second half: insert_new_credit(user_id).  The
\* insert of a second row for the user breaks the unique constraint, the
\* exception is caught, None comes back and init raises 500.
insert_new_credit(p) ==
    /\ pc[p] = "init_insert"
    /\ LET user_id == form_data[p].user_id IN
        /\ IF ~UniqueViolation(user_id)
           THEN /\ credit' = Append(credit,
                                    [user_id |-> user_id,
                                     credit |-> NewRowCredit(CREDIT_DEFAULT_CREDIT)])
                /\ InitReturns(p, NewRowModel(user_id, CREDIT_DEFAULT_CREDIT))
           ELSE /\ Return(p, InitFailed(op[p]))
                /\ UNCHANGED credit
        /\ touched' = touched \cup {user_id}
    /\ UNCHANGED <<credit_log, trade_ticket, chat, CREDIT_DEFAULT_CREDIT, ezfp, jwt, now, op, txn, logs, credits,
                   started, writes, completed>>

\* A check that never writes to the chat.
AnnotatesNever(md) == FALSE

\* message_id = metadata.get("message_id") or metadata.get("id")
MessageId(md) == IF md.message_id # "" THEN md.message_id ELSE md.id

\* isinstance(metadata, dict) and metadata, and chat_id and message_id
Annotates(md) ==
    /\ md.is_dict /\ (md.chat_id # "" \/ md.message_id # "" \/ md.id # "")
    /\ md.chat_id # "" /\ MessageId(md) # ""

\* Chats.upsert_message_to_chat_by_id_and_message_id(chat_id, message_id,
\* {"error": ...}): the message of the chat carries the error.
upsert_message_to_chat_by_id_and_message_id(chat_id, message_id) ==
    chat \cup {<<chat_id, message_id>>}

\* A test that lets a credit of 0 pass.
InsufficientNegative(c) == c < 0

\* The test of check_credit_by_user_id: not enough credit.
Insufficient(c) == c <= 0

\* check_credit_by_user_id after init, up to the raise: when the credit is not
\* positive and the metadata (read here for the first time) names a chat and
\* a message, the error is written to the message.
annotate(p) ==
    /\ pc[p] = "annotate"
    /\ IF ~credit_model[p].some \/ Insufficient(credit_model[p].credit)
       THEN \E md \in Metadatas :
              /\ form_data' = [form_data EXCEPT ![p].metadata = md]
              /\ chat' = IF Annotates(md)
                         THEN upsert_message_to_chat_by_id_and_message_id(
                                  md.chat_id, MessageId(md))
                         ELSE chat
       ELSE UNCHANGED <<form_data, chat>>
    /\ pc' = [pc EXCEPT ![p] = "check"]
    /\ UNCHANGED <<credit, credit_log, trade_ticket, CREDIT_DEFAULT_CREDIT, ezfp, jwt, now, op,
                   credit_model, txn, result, logs, credits, started, history>>

\* check_credit_by_user_id, its end: 403 when the credit is not positive.
check_credit_by_user_id(p) ==
    /\ pc[p] = "check"
    /\ Return(p, IF ~credit_model[p].some \/ Insufficient(credit_model[p].credit)
                 THEN Raise(403)
                 ELSE ReturnNone)
    /\ UNCHANGED <<tables, CREDIT_DEFAULT_CREDIT, ezfp, jwt, now, op, txn, logs, credits, started, history>>

\* A log row of add built with the credit as it was read.
LogCreditAsRead(o, model_credit, form) ==
    IF o = "set" THEN form.credit ELSE model_credit

\* The credit a log row is built with: the new credit for set, and for add
\* the credit init returned plus the amount.
LogCredit(o, model_credit, form) ==
    IF o = "set" THEN form.credit ELSE model_credit + form.amount

\* set_credit_by_user_id and add_credit_by_user_id: log = CreditLogModel(...)
\* and db.add(CreditLog(...)), which waits in the session.  created_at is
\* int(time.time()), the one reading of the clock: it has stayed or moved on
\* since the last reading.
add_log(p) ==
    /\ pc[p] = "log"
    /\ \E t \in now .. MaxTime : now' = t
    /\ txn' = [txn EXCEPT ![p].log =
                  [user_id |-> form_data[p].user_id,
                   credit |-> LogCredit(op[p], credit_model[p].credit, form_data[p]),
                   desc |-> IF op[p] = "settle" THEN "payment success" ELSE "",
                   created_at |-> now',
                   op |-> IF op[p] = "set" THEN "set" ELSE "add",
                   amount |-> form_data[p].amount,
                   id |-> form_data[p].id]]
    /\ Goto(p, "update")
    /\ UNCHANGED <<tables, CREDIT_DEFAULT_CREDIT, ezfp, jwt, op, logs, credits, started, history>>

\* The handlers whose transaction holds the lock of the user's credit row.
Locking(user_id) ==
    {q \in Procs : pc[q] = "commit" /\ form_data[q].user_id = user_id}

\* The UPDATE as a read-modify-write: the credit read by init plus the amount.
UpdatedCreditFromModel(o, row_credit, model_credit, form) ==
    IF o = "set" THEN Quantize(form.credit) ELSE Quantize(model_credit + form.amount)

\* The credit the UPDATE gives the row: the form's for set, and for add the
\* row's own credit plus the amount, computed by the database.
UpdatedCredit(o, row_credit, model_credit, form) ==
    IF o = "set" THEN Quantize(form.credit) ELSE Quantize(row_credit + form.amount)

\* db.query(Credit).filter(...).update(...): the session is flushed and the
\* UPDATE runs once no other transaction holds the user's row, which it
\* then holds itself until it ends: the row it works on is the row as last
\* committed, at its commit too.
update_credit(p) ==
    /\ pc[p] = "update"
    /\ Locking(form_data[p].user_id) = {}
    /\ txn' = [txn EXCEPT ![p].upd = TRUE]
    /\ Goto(p, "commit")
    /\ UNCHANGED <<tables, CREDIT_DEFAULT_CREDIT, ezfp, jwt, now, op, logs, credits, started, history>>

\* A set that writes no log row.
CommittedLogOfAdd(t) ==
    IF t.log.user_id = "" \/ t.log.op = "set" THEN <<>>
    ELSE <<[t.log EXCEPT !.credit = Quantize(@)]>>

\* The rows a transaction leaves in credit_log when it commits.
CommittedLog(t) ==
    IF t.log.user_id = "" THEN <<>> ELSE <<[t.log EXCEPT !.credit = Quantize(@)]>>

\* The table credit after the UPDATE of the user's rows.
UpdateRows(o, user_id, model_credit, form) ==
    [i \in DOMAIN credit |->
        IF credit[i].user_id = user_id
        THEN [credit[i] EXCEPT !.credit = UpdatedCredit(o, @, model_credit, form)]
        ELSE credit[i]]

\* db.commit(): the log row and the new credit become durable together.
commit(p) ==
    /\ pc[p] = "commit"
    /\ LET user_id == form_data[p].user_id IN
        /\ credit_log' = credit_log \o CommittedLog(txn[p])
        /\ IF txn[p].upd /\ Rows(user_id) # {}
           THEN /\ credit' = UpdateRows(op[p], user_id, credit_model[p].credit,
                                        form_data[p])
                /\ writes' = [writes EXCEPT ![user_id] = @ + 1]
           ELSE UNCHANGED <<credit, writes>>
    /\ txn' = [txn EXCEPT ![p] = NoTxn]
    /\ Goto(p, "reread")
    /\ UNCHANGED <<trade_ticket, chat, CREDIT_DEFAULT_CREDIT, ezfp, jwt, now, op, logs, credits, started,
                   touched, completed>>

\* return self.get_credit_by_user_id(...); update_credit_by_id drops the
\* value and returns None.
reread(p) ==
    /\ pc[p] = "reread"
    /\ Return(p, IF op[p] = "settle" THEN ReturnNone
                 ELSE ReturnModel(QueryCredit(form_data[p].user_id)))
    /\ completed' = [completed EXCEPT ![form_data[p].user_id] = @ + 1]
    /\ UNCHANGED <<tables, CREDIT_DEFAULT_CREDIT, ezfp, jwt, now, op, txn, logs, credits, started,
                   touched, writes>>

\* A log row written outside the transaction of the UPDATE.
RolledBackLogKept(t) == CommittedLog(t)

\* The rows a transaction leaves in credit_log when it is rolled back.
RolledBackLog(t) == <<>>

\* A statement of the transaction, or its commit, fails: the session is
\* left through the exception and nothing of the transaction is kept.
rollback(p) ==
    /\ pc[p] \in {"update", "commit"}
    /\ credit_log' = credit_log \o RolledBackLog(txn[p])
    /\ txn' = [txn EXCEPT ![p] = NoTxn]
    /\ Return(p, Failed(op[p], 500))
    /\ UNCHANGED <<credit, trade_ticket, chat, CREDIT_DEFAULT_CREDIT, ezfp, jwt, now, op, logs, credits, started,
                   history>>

\* insert_new_ticket: one INSERT and its commit; a second row with the id
\* breaks the primary key and the exception is raised again as 500.
insert_new_ticket(p) ==
    /\ pc[p] = "create"
    /\ LET f == form_data[p] IN
        IF f.id \notin DOMAIN trade_ticket
        THEN /\ trade_ticket' = trade_ticket @@
                    (f.id :> [user_id |-> f.user_id, amount |-> Quantize(f.amount),
                              detail |-> f.detail])
             /\ Return(p, [kind |-> "ticket", user_id |-> f.user_id, val |-> f.amount])
        ELSE /\ Return(p, Raise(500))
             /\ UNCHANGED trade_ticket
    /\ UNCHANGED <<credit, credit_log, chat, CREDIT_DEFAULT_CREDIT, ezfp, jwt, now, op, txn, logs, credits,
                   started, history>>

\* update_credit_by_id: UPDATE trade_ticket SET detail WHERE id, and commit.
\* No row need match.
update_ticket_detail(p) ==
    /\ pc[p] = "st_update"
    /\ trade_ticket' =
          IF form_data[p].id \in DOMAIN trade_ticket
          THEN [trade_ticket EXCEPT ![form_data[p].id].detail = form_data[p].detail]
          ELSE trade_ticket
    /\ Goto(p, "st_get")
    /\ UNCHANGED <<credit, credit_log, chat, CREDIT_DEFAULT_CREDIT, ezfp, jwt, now, op, txn, logs, credits,
                   started, history>>

\* update_credit_by_id: ticket = self.get_ticket_by_id(id), then
\* Credits.add_credit_by_user_id with the ticket's user and amount.  With no
\* ticket, ticket.user_id raises, and the method returns None.
settle_get_ticket(p) ==
    /\ pc[p] = "st_get"
    /\ IF form_data[p].id \in DOMAIN trade_ticket
       THEN /\ form_data' = [form_data EXCEPT
                    ![p].user_id = trade_ticket[form_data[p].id].user_id,
                    ![p].amount = trade_ticket[form_data[p].id].amount]
            /\ pc' = [pc EXCEPT ![p] = "init_get"]
            /\ UNCHANGED <<result, credit_model>>
       ELSE Return(p, ReturnNone)
    /\ UNCHANGED <<tables, CREDIT_DEFAULT_CREDIT, ezfp, jwt, now, op, txn, logs, credits, started, history>>

\* get_ticket_by_id, called on its own: the row's model, or None when
\* model_validate(None) raises
get_ticket_by_id(p) ==
    /\ pc[p] = "ticket"
    /\ LET id == form_data[p].id IN
        IF id \in DOMAIN trade_ticket
        THEN Return(p, [kind |-> "ticket", user_id |-> trade_ticket[id].user_id,
                        val |-> trade_ticket[id].amount])
        ELSE Return(p, ReturnNone)
    /\ UNCHANGED <<tables, CREDIT_DEFAULT_CREDIT, ezfp, jwt, now, op, txn, logs, credits, started,
                   history>>

\* The rows of credit_log with the user_id, by position.
UserLogs(user_id) == {i \in 1 .. Len(credit_log) : credit_log[i].user_id = user_id}

\* ORDER BY created_at DESC: every order of the rows in which created_at
\* never rises; rows of one second come in any order.
OrderByCreatedAtDesc(rows) ==
    {s \in [1 .. Cardinality(rows) -> rows] :
        /\ \A i, j \in DOMAIN s : i # j => s[i] # s[j]
        /\ \A i, j \in DOMAIN s :
              i < j => credit_log[s[i]].created_at >= credit_log[s[j]].created_at}

\* if limit: a limit that is None or 0 is not applied
IfLimit(limit) == limit # None /\ limit # 0

\* query.offset(offset) if offset, query.limit(limit) if limit
OffsetLimit(s, offset, limit) ==
    LET from == IF offset # None /\ offset # 0 THEN offset + 1 ELSE 1
        rest == IF from > Len(s) THEN <<>> ELSE SubSeq(s, from, Len(s))
    IN IF IfLimit(limit) /\ limit < Len(rest) THEN SubSeq(rest, 1, limit) ELSE rest

\* get_credit_log_by_user_id
get_credit_log_by_user_id(p) ==
    /\ pc[p] = "list"
    /\ \E s \in OrderByCreatedAtDesc(UserLogs(form_data[p].user_id)) :
          logs' = [logs EXCEPT ![p] =
                      OffsetLimit([i \in DOMAIN s |-> credit_log[s[i]]],
                                  form_data[p].offset, form_data[p].limit)]
    /\ Return(p, ReturnNone)
    /\ UNCHANGED <<tables, CREDIT_DEFAULT_CREDIT, ezfp, jwt, now, op, txn, credits, started, history>>

Next ==
    \/ \E p \in Procs : Start(p)
    \/ \E p \in Procs : get_credit_by_user_id(p)
    \/ \E p \in Procs : list_credits_by_user_id(p)
    \/ \E p \in Procs : init_get(p)
    \/ \E p \in Procs : insert_new_credit(p)
    \/ \E p \in Procs : annotate(p)
    \/ \E p \in Procs : check_credit_by_user_id(p)
    \/ \E p \in Procs : add_log(p)
    \/ \E p \in Procs : update_credit(p)
    \/ \E p \in Procs : commit(p)
    \/ \E p \in Procs : reread(p)
    \/ \E p \in Procs : insert_new_ticket(p)
    \/ \E p \in Procs : update_ticket_detail(p)
    \/ \E p \in Procs : settle_get_ticket(p)
    \/ \E p \in Procs : get_ticket_by_id(p)
    \/ \E p \in Procs : get_credit_log_by_user_id(p)

Spec == Init /\ [][Next]_vars

\* The same handlers over a database whose statements can fail.
NextFault ==
    \/ Next
    \/ \E p \in Procs : rollback(p)

SpecFault == Init /\ [][NextFault]_vars

\* ------------------------------------------------------------ EZFP client
\* utils/credit/ezfp.py: the client of the payment provider.  Its methods are
\* functions of their arguments and of the configuration; the caller applies
\* them to a dict, to a User-Agent header, and to the arguments of a trade.

\* every variable of the ledger
ledger == <<credit, credit_log, trade_ticket, chat, CREDIT_DEFAULT_CREDIT, now,
            pc, op, form_data, credit_model, txn, result, logs, credits, started,
            touched, writes, completed>>

\* number of pieces a User-Agent header is made of, at most
MaxFragments == 2

\* EZFP_KEY.value, WEBUI_NAME
EZFP_KEY == "KEY"
WEBUI_NAME == "Open WebUI"
\* EZFP_CALLBACK_HOST.value: a URL that ends in slashes
EZFP_CALLBACK_HOST == [stem |-> "https://host", slashes |-> "/"]
\* EZFP_PID.value as the configuration holds it: the str of the environment,
\* or an int
PidValues == {StrVal("1001"), IntVal("1001")}

\* the keys of a dict that sign and verify do not sign
SignKeys == {"sign", "sign_type"}
\* the keys of the dicts given to sign and verify, and the values of each
InputKeys == {"pid", "money", "type"}
InputValues(k) ==
    CASE k = "pid" -> {StrVal("1001"), IntVal("1001"), StrVal("1002")}
      [] k = "money" -> {StrVal("1.00"), StrVal(""), IntVal("0")}
      [] OTHER -> {StrVal("alipay"), StrVal("")}
Payloads ==
    {pl \in UNION {[D -> UNION {InputValues(k) : k \in InputKeys}] : D \in SUBSET InputKeys} :
        \A k \in DOMAIN pl : pl[k] \in InputValues(k)}

\* the arguments of create_trade: pay_type, and amount in thousandths
PayTypes == {"alipay", ""}
TradeAmounts == {0, 1000, 1006}

\* the pieces of a User-Agent header, character by character
Fragments ==
    {<<"M", "i", "c", "r", "o", "M", "e", "s", "s", "e", "n", "g", "e", "r">>,
     <<"Q", "Q">>,
     <<"A", "l", "i", "P", "a", "y">>, <<"q">>,
     <<"A", "n", "d", "r", "o", "i", "d">>,
     <<"i", "P", "h", "o", "n", "e">>,
     <<"M", "o", "z", "i", "l", "l", "a">>, <<" ">>}
RECURSIVE Headers(_)
Headers(n) ==
    IF n = 0 THEN {<<>>}
    ELSE Headers(n - 1) \cup {h \o f : h \in Headers(n - 1), f \in Fragments}
UAs == Headers(MaxFragments)

\* bool(v): a str is true when not empty, an int when not 0
Truthy(v) == IF v.type = "int" THEN v.text # "0" ELSE v.text # ""

\* The keys in the order params.sort() leaves their "k=v" in.
KeyOrder ==
    <<"clientip", "device", "money", "name", "notify_url", "out_trade_no", "pid",
      "return_url", "type">>

\* params: "k=v" of every item with a true value, sign and sign_type left
\* out, sorted
Params(pl) ==
    LET Signed(k) == k \in DOMAIN pl /\ k \notin SignKeys /\ Truthy(pl[k])
        keys == SelectSeq(KeyOrder, Signed)
    IN [i \in DOMAIN keys |-> keys[i] \o "=" \o pl[keys[i]].text]

\* "&".join(params)
RECURSIVE Join(_)
Join(params) ==
    IF params = <<>> THEN ""
    ELSE IF Len(params) = 1 THEN params[1]
    ELSE params[1] \o "&" \o Join(Tail(params))

\* hashlib.md5(plain_text.encode()).hexdigest(): a str that tells the texts
\* apart
MD5(plain_text) == "md5(" \o plain_text \o ")"

\* sign: the dict with its sign and sign_type
sign(pl) ==
    LET plain_text == Join(Params(pl)) \o EZFP_KEY IN
    [k \in DOMAIN pl \cup SignKeys |->
        IF k = "sign" THEN StrVal(MD5(plain_text))
        ELSE IF k = "sign_type" THEN StrVal("MD5")
        ELSE pl[k]]

\* verify: payload["pid"], payload["sign"] and payload["sign_type"] raise
\* KeyError when the key is missing; sign_type is read when the signs agree.
verify(pl) ==
    IF "pid" \notin DOMAIN pl THEN Raises("KeyError")
    ELSE IF pl["pid"] # EZFP_PID THEN Returns("False")
    ELSE LET payload2 == sign(pl) IN
         IF "sign" \notin DOMAIN pl THEN Raises("KeyError")
         ELSE IF pl["sign"] # payload2["sign"] THEN Returns("False")
         ELSE IF "sign_type" \notin DOMAIN pl THEN Raises("KeyError")
         ELSE IF pl["sign_type"] = payload2["sign_type"] THEN Returns("True")
         ELSE Returns("False")

\* str.lower(), letter by letter
UpperCase ==
    <<"A", "B", "C", "D", "E", "F", "G", "H", "I", "J", "K", "L", "M", "N", "O", "P", "Q", "R", "S", "T", "U", "V", "W", "X", "Y", "Z">>
LowerCase ==
    <<"a", "b", "c", "d", "e", "f", "g", "h", "i", "j", "k", "l", "m", "n", "o", "p", "q", "r", "s", "t", "u", "v", "w", "x", "y", "z">>
LowerChar(c) ==
    IF \E i \in DOMAIN UpperCase : UpperCase[i] = c
    THEN LowerCase[CHOOSE i \in DOMAIN UpperCase : UpperCase[i] = c]
    ELSE c
Lower(text) == [i \in DOMAIN text |-> LowerChar(text[i])]

\* str.find(sub): the lowest index sub starts at, or -1
Find(text, sub) ==
    LET at == {i \in 1 .. Len(text) - Len(sub) + 1 :
                  SubSeq(text, i, i + Len(sub) - 1) = sub}
    IN IF at = {} THEN -1 ELSE (CHOOSE i \in at : \A j \in at : i <= j) - 1

\* A classification that looks for android and iphone first.
get_device_mobile_first(header) ==
    LET low == Lower(header) IN
    IF Find(low, <<"a", "n", "d", "r", "o", "i", "d">>) # -1
          \/ Find(low, <<"i", "p", "h", "o", "n", "e">>) # -1 THEN "mobile"
    ELSE IF Find(low, <<"m", "i", "c", "r", "o", "m", "e", "s", "s", "e", "n", "g", "e", "r">>) # -1 THEN "wechat"
    ELSE IF Find(low, <<"q", "q">>) # -1 THEN "qq"
    ELSE IF Find(low, <<"a", "l", "i", "p", "a", "y">>) # -1 THEN "alipay"
    ELSE "pc"

get_device_from_ua(header) ==
    LET low == Lower(header) IN
    IF Find(low, <<"m", "i", "c", "r", "o", "m", "e", "s", "s", "e", "n", "g", "e", "r">>) # -1 THEN "wechat"
    ELSE IF Find(low, <<"q", "q">>) # -1 THEN "qq"
    ELSE IF Find(low, <<"a", "l", "i", "p", "a", "y">>) # -1 THEN "alipay"
    ELSE IF Find(low, <<"a", "n", "d", "r", "o", "i", "d">>) # -1
          \/ Find(low, <<"i", "p", "h", "o", "n", "e">>) # -1 THEN "mobile"
    ELSE "pc"

\* int(EZFP_PID.value)
ToInt(v) == IntVal(v.text)

\* "%.2f" % amount, for an amount below 10
DigitText == <<"0", "1", "2", "3", "4", "5", "6", "7", "8", "9">>
Format2f(amount) ==
    LET cents == (amount + 5) \div 10 IN
    DigitText[(cents \div 100) + 1] \o "." \o DigitText[((cents \div 10) % 10) + 1]
        \o DigitText[(cents % 10) + 1]

\* the payload create_trade builds
TradePayload(pay_type, out_trade_no, amount, client_ip, header) ==
    [k \in {"pid", "type", "out_trade_no", "notify_url", "return_url", "name", "money",
            "clientip", "device"} |->
        CASE k = "pid" -> ToInt(EZFP_PID)
          [] k = "type" -> StrVal(pay_type)
          [] k = "out_trade_no" -> StrVal(out_trade_no)
          [] k = "notify_url" -> StrVal(EZFP_CALLBACK_HOST.stem \o "/api/v1/credit/callback")
          [] k = "return_url" ->
                StrVal(EZFP_CALLBACK_HOST.stem \o EZFP_CALLBACK_HOST.slashes)
          [] k = "name" -> StrVal(WEBUI_NAME \o " Credit")
          [] k = "money" -> StrVal(Format2f(amount))
          [] k = "clientip" -> StrVal(client_ip)
          [] OTHER -> StrVal(get_device_from_ua(header))]

\* the outcomes of client.post(...) and resp.json()
Exchanges == {"json", "ConnectError", "JSONDecodeError"}

\* create_trade that lets the exception through
Propagated(err) == Raises(err)

\* except Exception as err: return {"code": -1, "msg": str(err)}
OnException(err) == [kind |-> "return", val |-> "-1", msg |-> err]

InitEzfp ==
    /\ credit = <<>>
    /\ credit_log = <<>>
    /\ trade_ticket = [t \in {} |-> NoForm]
    /\ chat = {}
    /\ CREDIT_DEFAULT_CREDIT = 0
    /\ now = 0
    /\ pc = [p \in Procs |-> "idle"]
    /\ op = [p \in Procs |-> ""]
    /\ form_data = [p \in Procs |-> NoForm]
    /\ credit_model = [p \in Procs |-> NoneModel]
    /\ txn = [p \in Procs |-> NoTxn]
    /\ result = [p \in Procs |-> ReturnNone]
    /\ logs = [p \in Procs |-> <<>>]
    /\ credits = [p \in Procs |-> <<>>]
    /\ started = 0
    /\ touched = {}
    /\ writes = [u \in Users |-> 0]
    /\ completed = [u \in Users |-> 0]
    /\ EZFP_PID \in PidValues
    /\ payload \in Payloads
    /\ ua \in UAs
    /\ signed = EmptyDict
    /\ ez_pc = "input"
    /\ out = NoOut
    /\ client = "none"
    /\ JwtOff

\* the caller has the dict signed
call_sign ==
    /\ ez_pc = "input"
    /\ payload' = sign(payload)
    /\ signed' = payload'
    /\ ez_pc' = "signed"
    /\ UNCHANGED <<ledger, jwt, EZFP_PID, ua, out, client>>

\* The signed dict comes back with the value of one field changed.
tamper ==
    /\ ez_pc = "signed"
    /\ \E k \in DOMAIN payload \ SignKeys : \E v \in InputValues(k) \ {payload[k]} :
          payload' = [payload EXCEPT ![k] = v]
    /\ ez_pc' = "inbound"
    /\ UNCHANGED <<ledger, jwt, EZFP_PID, signed, ua, out, client>>

\* The signed dict comes back without one of its fields.
drop ==
    /\ ez_pc = "signed"
    /\ \E k \in DOMAIN payload : payload' = [j \in DOMAIN payload \ {k} |-> payload[j]]
    /\ ez_pc' = "inbound"
    /\ UNCHANGED <<ledger, jwt, EZFP_PID, signed, ua, out, client>>

\* the caller has a dict verified: as it got it, signed, or as it came back
call_verify ==
    /\ ez_pc \in {"input", "signed", "inbound"}
    /\ out' = verify(payload)
    /\ ez_pc' = "verified"
    /\ UNCHANGED <<ledger, jwt, EZFP_PID, payload, signed, ua, client>>

\* the caller has the header classified
call_get_device_from_ua ==
    /\ ez_pc = "input"
    /\ out' = Returns(get_device_from_ua(ua))
    /\ ez_pc' = "classified"
    /\ UNCHANGED <<ledger, jwt, EZFP_PID, payload, signed, ua, client>>

\* create_trade up to the request: the payload is built and signed and the
\* httpx.AsyncClient is there.
create_trade ==
    /\ ez_pc = "input"
    /\ \E pay_type \in PayTypes : \E amount \in TradeAmounts :
          payload' = sign(TradePayload(pay_type, "t1", amount, "10.0.0.1", ua))
    /\ signed' = payload'
    /\ client' = "open"
    /\ ez_pc' = "post"
    /\ UNCHANGED <<ledger, jwt, EZFP_PID, ua, out>>

\* await client.post(...) and resp.json(): the parsed response, or the
\* exception of either, caught; what is returned waits for the finally.
create_trade_post ==
    /\ ez_pc = "post"
    /\ \E x \in Exchanges :
          /\ client' = x
          /\ out' = IF x = "json" THEN Returns("json") ELSE OnException(x)
    /\ ez_pc' = "finally"
    /\ UNCHANGED <<ledger, jwt, EZFP_PID, payload, signed, ua>>

\* finally: await client.aclose(), and the return
create_trade_finally ==
    /\ ez_pc = "finally"
    /\ client' = "closed"
    /\ ez_pc' = "returned"
    /\ UNCHANGED <<ledger, jwt, EZFP_PID, payload, signed, ua, out>>

NextEzfp ==
    \/ call_sign
    \/ tamper
    \/ drop
    \/ call_verify
    \/ call_get_device_from_ua
    \/ create_trade
    \/ create_trade_post
    \/ create_trade_finally

SpecEzfp == InitEzfp /\ [][NextEzfp]_vars

\* ------------------------------------------------------------ JWT tokens
\* utils/auth.py: set_jwt_token keeps the tokens of a user in a Redis hash with
\* the time of their hset, and check_jwt_max_count, called by decode_token,
\* lets the newest ENHANCED_JWT_MAX_COUNT of them through.  The callers run
\* side by side; hgetall, hdel and hset are the atomic steps.

\* number of calls of set_jwt_token in one behaviour
MaxSets == 4
\* the values of ENHANCED_JWT_MAX_COUNT
MaxCounts == {0, 1, 2}

\* str(n) for a number of two digits, digit by digit
StrOf(n) == <<n \div 10, n % 10>>

\* a > b for two str: the first place they differ in decides, and a longer
\* str is above its prefix
StrGreater(a, b) ==
    \/ \E i \in DOMAIN a \cap DOMAIN b :
          /\ a[i] > b[i]
          /\ \A j \in 1 .. i - 1 : a[j] = b[j]
    \/ /\ Len(a) > Len(b)
       /\ \A j \in DOMAIN b : a[j] = b[j]

\* jwt.decode(token, ...): the payload's id
Decode(token) == token.id

\* not redis_client or jwt_max_count <= 0
Unlimited == ~redis_client \/ ENHANCED_JWT_MAX_COUNT <= 0

\* tokens.sort(key=created_at, reverse=True) and tokens[:n]: the tokens with
\* fewer than n tokens of a later time
ToVerify(token_map, n) ==
    {t \in DOMAIN token_map :
        Cardinality({o \in DOMAIN token_map : StrGreater(token_map[o], token_map[t])}) < n}

\* tokens[jwt_max_count:]
ToRemove(token_map, n) == DOMAIN token_map \ ToVerify(token_map, n)

InitJwt ==
    /\ credit = <<>>
    /\ credit_log = <<>>
    /\ trade_ticket = [t \in {} |-> NoForm]
    /\ chat = {}
    /\ CREDIT_DEFAULT_CREDIT = 0
    /\ now = 0
    /\ pc = [p \in Procs |-> "idle"]
    /\ op = [p \in Procs |-> ""]
    /\ form_data = [p \in Procs |-> NoForm]
    /\ credit_model = [p \in Procs |-> NoneModel]
    /\ txn = [p \in Procs |-> NoTxn]
    /\ result = [p \in Procs |-> ReturnNone]
    /\ logs = [p \in Procs |-> <<>>]
    /\ credits = [p \in Procs |-> <<>>]
    /\ started = 0
    /\ touched = {}
    /\ writes = [u \in Users |-> 0]
    /\ completed = [u \in Users |-> 0]
    /\ EzfpOff
    /\ redis_client \in BOOLEAN
    /\ ENHANCED_JWT_MAX_COUNT \in MaxCounts
    /\ redis = [k \in {jwt_cache_key(u) : u \in JwtUsers} |-> EmptyHash]
    /\ time_ns = Epoch
    /\ jwt_pc = [p \in Procs |-> "idle"]
    /\ to_remove = [p \in Procs |-> {}]
    /\ jwt_out = [p \in Procs |-> [token |-> NoToken, data |-> "none"]]
    /\ registered = [u \in JwtUsers |-> <<>>]
    /\ refused = {}

\* the sequence without the token
Without(tokens, token) == SelectSeq(tokens, LAMBDA t : t # token)

\* set_jwt_token(user_id, token) with the token of the user: the hset gives
\* the token the time of now, whether the hash had it or not; the clock has
\* moved on since it was last read.
set_jwt_token ==
    /\ time_ns < Epoch + MaxSets
    /\ time_ns' = time_ns + 1
    /\ \E token \in Tokens :
          LET key == jwt_cache_key(token.id) IN
          IF Unlimited
          THEN UNCHANGED <<redis, registered>>
          ELSE /\ redis' = [redis EXCEPT ![key] =
                              [t \in DOMAIN @ \cup {token} |->
                                  IF t = token THEN StrOf(time_ns') ELSE @[t]]]
               /\ registered' = [registered EXCEPT ![token.id] =
                                    Append(Without(@, token), token)]
    /\ UNCHANGED <<ledger, ezfp, redis_client, ENHANCED_JWT_MAX_COUNT, jwt_pc, to_remove,
                   jwt_out, refused>>

\* decode_token(token) is called with a token that decodes.
decode_token(p) ==
    /\ jwt_pc[p] \in {"idle", "done"}
    /\ \E token \in Tokens :
          jwt_out' = [jwt_out EXCEPT ![p] = [token |-> token, data |-> "none"]]
    /\ jwt_pc' = [jwt_pc EXCEPT ![p] = "hgetall"]
    /\ UNCHANGED <<ledger, ezfp, redis_client, ENHANCED_JWT_MAX_COUNT, redis, time_ns,
                   to_remove, registered, refused>>

\* check_jwt_max_count up to the hdel: the data comes back when there is no
\* limit, or when the token is one of the newest of the hash as hgetall
\* gave it; None comes back at once when the hash is empty or holds nothing
\* to remove.
check_jwt_max_count(p) ==
    /\ jwt_pc[p] = "hgetall"
    /\ LET token == jwt_out[p].token
           token_map == redis[jwt_cache_key(Decode(token))]
           n == ENHANCED_JWT_MAX_COUNT
       IN IF Unlimited \/ (token_map # EmptyHash /\ token \in ToVerify(token_map, n))
          THEN /\ jwt_out' = [jwt_out EXCEPT ![p].data = "data"]
               /\ jwt_pc' = [jwt_pc EXCEPT ![p] = "done"]
               /\ UNCHANGED <<to_remove, refused>>
          ELSE /\ refused' = IF \E i \in DOMAIN registered[token.id] :
                                    registered[token.id][i] = token
                             THEN refused \cup {token}
                             ELSE refused
               /\ IF token_map = EmptyHash \/ ToRemove(token_map, n) = {}
                  THEN /\ jwt_out' = [jwt_out EXCEPT ![p].data = "None"]
                       /\ jwt_pc' = [jwt_pc EXCEPT ![p] = "done"]
                       /\ UNCHANGED to_remove
                  ELSE /\ to_remove' = [to_remove EXCEPT ![p] = ToRemove(token_map, n)]
                       /\ jwt_pc' = [jwt_pc EXCEPT ![p] = "hdel"]
                       /\ UNCHANGED jwt_out
    /\ UNCHANGED <<ledger, ezfp, redis_client, ENHANCED_JWT_MAX_COUNT, redis, time_ns,
                   registered>>

\* redis_client.hdel(key, *to_remove), and return None
hdel(p) ==
    /\ jwt_pc[p] = "hdel"
    /\ LET key == jwt_cache_key(Decode(jwt_out[p].token)) IN
          redis' = [redis EXCEPT ![key] = [t \in DOMAIN @ \ to_remove[p] |-> @[t]]]
    /\ to_remove' = [to_remove EXCEPT ![p] = {}]
    /\ jwt_out' = [jwt_out EXCEPT ![p].data = "None"]
    /\ jwt_pc' = [jwt_pc EXCEPT ![p] = "done"]
    /\ UNCHANGED <<ledger, ezfp, redis_client, ENHANCED_JWT_MAX_COUNT, time_ns, registered,
                   refused>>

NextJwt ==
    \/ set_jwt_token
    \/ \E p \in Procs : decode_token(p)
    \/ \E p \in Procs : check_jwt_max_count(p)
    \/ \E p \in Procs : hdel(p)

SpecJwt == InitJwt /\ [][NextJwt]_vars

\* ------------------------------------------------------------ properties
InCall(p) == pc[p] \notin {"idle", "done"}

\* No handler is inside a call that works on the user.
Quiet(user_id) == \A p \in Procs : InCall(p) => form_data[p].user_id # user_id

\* The rows of credit_log written by settlements of the ticket.
SettlementCredits(id) == {i \in DOMAIN credit_log : credit_log[i].id = id}

\* C1: however often a ticket is settled, its amount is credited to the
\* ticket's user once: the ledger holds at most one credit per ticket id.
C1_SettledOnce ==
    \A id \in TicketIds : Cardinality(SettlementCredits(id)) <= 1

\* The credit the user has after the first n rows of credit_log, each set
\* and each amount added taken in the order of the commits.
RECURSIVE Replayed(_, _)
Replayed(user_id, n) ==
    IF n = 0 THEN Quantize(CREDIT_DEFAULT_CREDIT)
    ELSE LET e == credit_log[n]
             before == Replayed(user_id, n - 1)
         IN IF e.user_id # user_id THEN before
            ELSE IF e.op = "set" THEN e.credit
            ELSE Quantize(before + e.amount)

OnlyAddsOfOne(user_id) ==
    \A i \in UserLogs(user_id) : credit_log[i].op = "add" /\ credit_log[i].amount = Unit

\* C2: no add is lost.  The credit of a user's row is what the committed
\* sets and adds give one after the other, and once N calls add(user, +1),
\* and nothing else, have returned on a user whose credit started at 0, the
\* credit is N.
C2_NoLostUpdates ==
    \A u \in Users : \A i \in Rows(u) :
        /\ credit[i].credit = Replayed(u, Len(credit_log))
        /\ (Quiet(u) /\ OnlyAddsOfOne(u))
              => credit[i].credit = Quantize(CREDIT_DEFAULT_CREDIT) + Unit * completed[u]

\* Two add(+1) on a credit of 0 that both read 0 before either committed (both
\* log rows say 1), and the credit is 2.
C2_Witness ==
    \E u \in Users :
        /\ Quiet(u) /\ OnlyAddsOfOne(u) /\ completed[u] = 2
        /\ Quantize(CREDIT_DEFAULT_CREDIT) = 0
        /\ \A i \in UserLogs(u) : credit_log[i].credit = Unit
        /\ \E i \in Rows(u) : credit[i].credit = 2 * Unit

\* C3: every init_credit_by_user_id returns a model, also the one that
\* lost the race for the insert, and the user has one row.
C3_InitReturnsBalance ==
    /\ \A p \in Procs : (pc[p] = "done" /\ op[p] = "init") => result[p].kind = "model"
    /\ \A u \in Users : Cardinality(Rows(u)) <= 1

\* C4: a user has at most one row, has one once an init, set, add or check
\* got past its init for the user, and no row goes away (every row is the
\* row of a user so touched, and such a user keeps a row).
C4_OneRowPerUser ==
    /\ \A u \in Users : Cardinality(Rows(u)) <= 1
    /\ \A u \in touched : Cardinality(Rows(u)) = 1
    /\ \A i \in DOMAIN credit : credit[i].user_id \in touched

\* Two calls raced for the first row of a user: one lost and raised, and the
\* user has its one row.
C4_Witness ==
    \E p \in Procs : \E u \in touched :
        /\ pc[p] = "done" /\ result[p] = Raise(500)
        /\ Cardinality(Rows(u)) = 1
        /\ Cardinality(touched) = 1

\* C5: the log row an add commits holds the credit the user's row has right
\* after that commit.
C5_SnapshotIsBalance ==
    [][\A i \in DOMAIN credit_log' :
          (i > Len(credit_log) /\ credit_log'[i].op = "add")
              => \A j \in DOMAIN credit' :
                    credit'[j].user_id = credit_log'[i].user_id
                        => credit'[j].credit = credit_log'[i].credit]_vars

\* C6: set and add leave the log row and the new credit together or not at
\* all, whatever fails: a user has as many log rows as committed updates of
\* its credit row.
C6_LogAndCreditTogether ==
    \A u \in Users : Cardinality(UserLogs(u)) = writes[u]

\* A set or add was the only call, failed inside its transaction, and left
\* neither a log row nor a changed credit.
C6_Witness ==
    \E p \in Procs :
        /\ started = 1 /\ pc[p] = "done" /\ op[p] \in {"set", "add"}
        /\ result[p] = Raise(500)
        /\ credit_log = <<>> /\ Len(credit) = 1

\* The calls that have committed and not yet returned.
Returning(user_id) == {p \in Procs : pc[p] = "reread" /\ form_data[p].user_id = user_id}

C7_Count ==
    \A u \in Users :
        Cardinality(UserLogs(u)) = completed[u] + Cardinality(Returning(u))

C7_Append ==
    /\ Len(credit_log') >= Len(credit_log)
    /\ \A i \in DOMAIN credit_log : credit_log'[i] = credit_log[i]

\* C7: a user has one log row for each set, add and settlement credit that
\* has committed (returned, or about to), and no step changes or removes a
\* row of the log.
C7_OneRowPerOperation == []C7_Count /\ [][C7_Append]_vars

\* Three calls have returned, a set and an add among them, and left three rows.
C7_Witness ==
    /\ Len(credit_log) = 3
    /\ \A p \in Procs : ~InCall(p)
    /\ \E i, j \in DOMAIN credit_log :
          credit_log[i].op = "set" /\ credit_log[j].op = "add"

\* get_credit_by_user_id returned the credit of a user nothing was set on or
\* added to.
GotUntouched(p) ==
    /\ pc[p] = "done" /\ op[p] = "get" /\ result[p].kind = "model"
    /\ UserLogs(result[p].user_id) = {}

\* init_credit_by_user_id on a user with a row returns that row's credit and
\* leaves the table alone.
C8_InitKeeps ==
    \A p \in Procs :
        (pc[p] = "init_get" /\ op[p] = "init" /\ pc'[p] = "done")
            => /\ credit' = credit
               /\ result'[p].kind = "model"
               /\ \E i \in Rows(form_data[p].user_id) : result'[p].val = credit[i].credit

\* C8 as stated: get after the lazy init returns the configured default
\* exactly, and init on a user with a row returns the row and resets nothing.
C8_DefaultExactly ==
    /\ [](\A p \in Procs : GotUntouched(p) => result[p].val = CREDIT_DEFAULT_CREDIT)
    /\ [][C8_InitKeeps]_vars

\* C8 as amended: get after the lazy init returns the configured default
\* rounded to the twelve fractional digits of the column.
C8_DefaultRounded ==
    /\ [](\A p \in Procs : GotUntouched(p) => result[p].val = Quantize(CREDIT_DEFAULT_CREDIT))
    /\ [][C8_InitKeeps]_vars

\* The one handler made two calls, the second a get that returned the
\* default, 10^-12, of the row the first call created.
C8_Witness ==
    /\ started = 2 /\ \A p \in Procs : p # 1 => pc[p] = "idle"
    /\ GotUntouched(1) /\ result[1].user_id \in touched
    /\ CREDIT_DEFAULT_CREDIT = Unit /\ result[1].val = Unit

\* The last row committed to the log for the user is a set.
LastIsSet(user_id) ==
    /\ UserLogs(user_id) # {}
    /\ \E i \in UserLogs(user_id) :
          /\ \A j \in UserLogs(user_id) : j <= i
          /\ credit_log[i].op = "set"

LastSet(user_id) ==
    credit_log[CHOOSE i \in UserLogs(user_id) : \A j \in UserLogs(user_id) : j <= i].credit

\* C9: with one caller at work, after set(user, X) a get returns X and the
\* first row get_credit_log_by_user_id returns, called without offset and
\* limit, holds X.
C9_SetThenRead ==
    [][\A p \in Procs :
          ((\A q \in Procs : q # p => pc[q] = "idle")
             /\ pc'[p] = "done" /\ LastIsSet(form_data[p].user_id))
          => /\ pc[p] = "get" =>
                  (result'[p].kind = "model"
                     /\ result'[p].val = LastSet(form_data[p].user_id))
             /\ (pc[p] = "list" /\ form_data[p].offset = None /\ form_data[p].limit = None) =>
                  (Len(logs'[p]) > 0
                     /\ logs'[p][1].credit = LastSet(form_data[p].user_id))]_vars

CarriesBoth(md) ==
    md.is_dict /\ md.chat_id # "" /\ (md.message_id # "" \/ md.id # "")

\* C11: a check that refuses writes the error to the message of the chat its
\* metadata names before it raises 403; with no metadata, or metadata that
\* lacks the chat or the message, no step of the check writes to a chat, and
\* 403 is raised all the same.
C11_AnnotatedBeforeRefusal ==
    [][\A p \in Procs :
          (op[p] = "check" /\ InCall(p) /\ pc'[p] # pc[p])
          => LET md == form_data[p].metadata IN
             /\ (pc[p] = "check" /\ pc'[p] = "done" /\ credit_model[p].credit <= 0)
                  => /\ result'[p] = Raise(403)
                     /\ chat' = chat
                     /\ CarriesBoth(md) => <<md.chat_id, MessageId(md)>> \in chat
             /\ chat' # chat
                  => /\ CarriesBoth(form_data'[p].metadata)
                     /\ credit_model[p].credit <= 0
                     /\ chat' = chat \cup {<<form_data'[p].metadata.chat_id,
                                              MessageId(form_data'[p].metadata)>>}]_vars

\* A check was refused with metadata that named a chat and a message, the
\* message carries the error, and a second check is about to be refused with
\* metadata that names the chat only.
C11_Witness ==
    \E p, q \in Procs :
        /\ pc[p] = "done" /\ op[p] = "check" /\ result[p] = Raise(403)
        /\ chat = {<<"c1", "m1">>}
        /\ pc[q] = "check" /\ credit_model[q].credit <= 0
        /\ form_data[q].metadata.is_dict /\ form_data[q].metadata.chat_id = "c1"
        /\ ~CarriesBoth(form_data[q].metadata)
\* insert_new_ticket with an id that has a ticket fails and leaves the
\* tables as they are.
C12_FailedCreateKeeps ==
    \A p \in Procs :
        (pc[p] = "create" /\ pc'[p] = "done" /\ form_data[p].id \in DOMAIN trade_ticket)
            => /\ result'[p].kind = "error"
               /\ trade_ticket' = trade_ticket
               /\ credit' = credit /\ credit_log' = credit_log

\* C12: insert_new_ticket with an id that has a ticket fails as a conflict
\* (409), and the failed call leaves the ticket, every credit and the log as
\* they are.
C12_ConflictOnDuplicate ==
    /\ [](\A p \in Procs :
            (pc[p] = "done" /\ op[p] = "create" /\ result[p].kind = "error")
                => result[p].val = 409)
    /\ [][C12_FailedCreateKeeps]_vars
\* C13: update_credit_by_id with an id that has no ticket reports "not found"
\* (404) to its caller, and none of its steps changes a ticket, a credit or
\* the log.
C13_SettleNotFound ==
    [][\A p \in Procs :
          (op[p] = "settle" /\ pc'[p] # pc[p] /\ pc[p] \in {"st_update", "st_get"}
             /\ form_data[p].id \notin DOMAIN trade_ticket)
          => /\ trade_ticket' = trade_ticket
             /\ credit' = credit /\ credit_log' = credit_log
             /\ pc[p] = "st_get" => (pc'[p] = "done" /\ result'[p] = Raise(404))]_vars
\* Handler p is the only one that has made calls.
Alone(p) == \A q \in Procs : q # p => pc[q] = "idle"

\* The commit of a settlement's credit: the row of the ticket's user goes
\* from b to b + a, no other row changes, and one row joins the log, of the
\* user, with b + a and "payment success".
C14_Commit(p, u, a) ==
    /\ Len(credit') = Len(credit)
    /\ \A i \in DOMAIN credit :
          credit'[i] = IF credit[i].user_id = u
                       THEN [credit[i] EXCEPT !.credit = @ + a]
                       ELSE credit[i]
    /\ Len(credit_log') = Len(credit_log) + 1
    /\ \A i \in DOMAIN credit_log : credit_log'[i] = credit_log[i]
    /\ LET e == credit_log'[Len(credit_log')] IN
          /\ e.user_id = u /\ e.desc = "payment success"
          /\ \E i \in Rows(u) : e.credit = credit[i].credit + a

\* C14: one update_credit_by_id on a ticket (user u, amount a) not settled
\* before, with nothing else running: the credit of u goes from b to b + a,
\* the ticket holds the provider's detail, one row joins the log, of u, with
\* b + a and "payment success", and nothing else of the credits (but the
\* row init creates for u) or of the log changes.
C14_SingleSettle ==
    [][\A p \in Procs :
          (op[p] = "settle" /\ InCall(p) /\ pc'[p] # pc[p] /\ Alone(p)
             /\ form_data[p].id \in DOMAIN trade_ticket
             /\ SettlementCredits(form_data[p].id) = {})
          => LET t == trade_ticket[form_data[p].id] IN
             /\ pc[p] = "commit" =>
                  /\ C14_Commit(p, t.user_id, t.amount)
                  /\ t.detail = form_data[p].detail /\ trade_ticket' = trade_ticket
             /\ pc[p] # "commit" =>
                  /\ credit_log' = credit_log
                  /\ \A i \in DOMAIN credit : credit'[i] = credit[i]
                  /\ \A i \in DOMAIN credit' \ DOMAIN credit :
                        credit'[i] = [user_id |-> t.user_id,
                                      credit |-> Quantize(CREDIT_DEFAULT_CREDIT)]]_vars

\* The one handler created a ticket, added to the credit of its user and
\* settled it: the credit is the default, the amount added and the ticket's
\* amount, and the log has the one row of the settlement after the add's.
C14_Witness ==
    /\ Alone(1) /\ pc[1] = "done" /\ op[1] = "settle"
    /\ Len(credit_log) = 2 /\ credit_log[1].op = "add" /\ credit_log[1].id = ""
    /\ credit_log[2].desc = "payment success"
    /\ credit_log[2].credit = Quantize(CREDIT_DEFAULT_CREDIT) + credit_log[1].amount + 2 * Unit
    /\ \E i \in DOMAIN credit : credit[i].credit = credit_log[2].credit
    /\ \A t \in DOMAIN trade_ticket : trade_ticket[t].detail \in ProviderDetails
\* C15: the detail of a ticket changes once: only update_credit_by_id
\* changes it, and only on a ticket that still has the detail it was created
\* with.
C15_DetailOnce ==
    [][\A t \in DOMAIN trade_ticket :
          trade_ticket'[t].detail # trade_ticket[t].detail
              => /\ trade_ticket[t].detail = "created"
                 /\ \E p \in Procs :
                       /\ op[p] = "settle" /\ pc[p] = "st_update" /\ pc'[p] # pc[p]
                       /\ form_data[p].id = t]_vars
\* The dict differs from the one sign returned in the value of one field,
\* not sign or sign_type.
OneFieldChanged ==
    /\ DOMAIN payload = DOMAIN signed
    /\ \E k \in DOMAIN signed \ SignKeys :
          /\ payload[k] # signed[k]
          /\ \A j \in DOMAIN signed \ {k} : payload[j] = signed[j]

\* C16: verify of what sign returned is True when the pid is the configured
\* one, also for the payload create_trade builds and signs, and verify is
\* False once the value of one field other than sign and sign_type has been
\* changed after signing, an empty or zero value included.
C16_RoundTrip ==
    /\ (ez_pc = "verified" /\ payload = signed /\ "pid" \in DOMAIN payload
          /\ payload["pid"] = EZFP_PID)
            => out = Returns("True")
    /\ ez_pc = "post" => verify(payload) = Returns("True")
    /\ (ez_pc = "verified" /\ signed # EmptyDict /\ OneFieldChanged)
            => out = Returns("False")

\* The dict has no pid, or another pid than the configured one, or no sign
\* or sign_type, or not the ones sign gives it.
Mismatch(pl) ==
    \/ "pid" \notin DOMAIN pl
    \/ pl["pid"] # EZFP_PID
    \/ \E k \in SignKeys : k \notin DOMAIN pl
    \/ \E k \in SignKeys : pl[k] # sign(pl)[k]

\* C17: verify raises for no dict: it returns a bool, and False for a dict
\* that has no pid, sign or sign_type, another pid than the configured one,
\* or another sign than its own.
C17_VerifyTotal ==
    ez_pc = "verified"
        => /\ out.kind = "return"
           /\ Mismatch(payload) => out = Returns("False")

\* The marker occurs in the header, whatever the case of its letters.
Occurs(header, marker) ==
    \E i \in 1 .. Len(header) :
        /\ i + Len(marker) - 1 <= Len(header)
        /\ \A j \in DOMAIN marker : LowerChar(header[i + j - 1]) = marker[j]

\* the classes in their order of priority, each with its markers
DeviceClasses ==
    <<[class |-> "wechat", markers |-> {<<"m", "i", "c", "r", "o", "m", "e", "s", "s", "e", "n", "g", "e", "r">>}],
      [class |-> "qq", markers |-> {<<"q", "q">>}],
      [class |-> "alipay", markers |-> {<<"a", "l", "i", "p", "a", "y">>}],
      [class |-> "mobile", markers |-> {<<"a", "n", "d", "r", "o", "i", "d">>,
                                        <<"i", "p", "h", "o", "n", "e">>}]>>

Matching(header) ==
    {i \in DOMAIN DeviceClasses : \E m \in DeviceClasses[i].markers : Occurs(header, m)}

\* C18: get_device_from_ua returns the first class, in the order wechat, qq,
\* alipay, mobile, whose marker occurs in the header in any case, and pc
\* when none does: qq for a header with android and qq (and no marker of
\* wechat), mobile for one with android or iphone only, pc for the empty one.
C18_DevicePriority ==
    ez_pc = "classified" =>
        /\ out.kind = "return"
        /\ \A i \in Matching(ua) :
              (\A j \in Matching(ua) : i <= j) => out.val = DeviceClasses[i].class
        /\ Matching(ua) = {} => out.val = "pc"
        /\ Matching(ua) = {2, 4} => out.val = "qq"
        /\ Matching(ua) = {4} => out.val = "mobile"
        /\ ua = <<>> => out.val = "pc"

\* A header with Android and QQ has been classified as qq.
C18_Witness ==
    /\ ez_pc = "classified" /\ out.val = "qq"
    /\ Occurs(ua, <<"a", "n", "d", "r", "o", "i", "d">>) /\ Occurs(ua, <<"q", "q">>)
    /\ Len(ua) = 9

\* C19: create_trade raises nothing when the request or the parsing of the
\* response fails: it returns {"code": -1, "msg": the exception's text}, and
\* the httpx client is closed when it returns, whether the exchange failed
\* or not.
C19_TransportFailure ==
    /\ [](ez_pc \in {"finally", "returned"} => out.kind = "return")
    /\ [](ez_pc = "returned" => client = "closed")
    /\ [][(ez_pc = "post" /\ ez_pc' = "finally")
            => IF client' = "json" THEN out' = Returns("json")
               ELSE out' = [kind |-> "return", val |-> "-1", msg |-> client']]_vars

\* create_trade has returned the error of a request that failed, and the
\* client is closed.
C19_Witness ==
    /\ ez_pc = "returned" /\ client = "closed"
    /\ out = [kind |-> "return", val |-> "-1", msg |-> "ConnectError"]
\* The rows s without its first offset rows (none skipped without an offset),
\* and of these the first limit rows (all of them without a limit).
Page(s, offset, limit) ==
    LET skip == IF offset = None THEN 0 ELSE offset
        last == IF limit = None \/ skip + limit > Len(s) THEN Len(s) ELSE skip + limit
    IN [i \in 1 .. (IF last > skip THEN last - skip ELSE 0) |-> s[skip + i]]

\* C20: get_credit_log_by_user_id(user, offset, limit) returns rows of the
\* user only, newest first by created_at: the rows of the user in such an
\* order without the first offset ones, and at most limit of them; all of
\* them without a limit, from the newest without an offset.
C20_ListPage ==
    [][\A p \in Procs :
          (pc[p] = "list" /\ pc'[p] = "done")
          => LET f == form_data[p]
                 rows == logs'[p]
             IN /\ \A i \in DOMAIN rows : rows[i].user_id = f.user_id
                /\ \A i, j \in DOMAIN rows :
                      i < j => rows[i].created_at >= rows[j].created_at
                /\ f.limit # None => Len(rows) <= f.limit
                /\ \E s \in OrderByCreatedAtDesc(UserLogs(f.user_id)) :
                      rows = Page([i \in DOMAIN s |-> credit_log[s[i]]], f.offset, f.limit)]_vars
\* No update_credit_by_id is at work on the ticket.
Settling(id) == {p \in Procs : InCall(p) /\ op[p] = "settle" /\ form_data[p].id = id}

\* C21: a settlement marks the ticket and credits its user, or does neither:
\* once the calls of update_credit_by_id on a ticket have returned, the
\* ticket holds a provider's detail exactly when its amount was credited,
\* and a call whose credit failed ends in an error, not in a plain return.
C21_AllOrNothing ==
    /\ [](\A id \in DOMAIN trade_ticket :
            Settling(id) = {}
                => (trade_ticket[id].detail \in ProviderDetails
                      <=> SettlementCredits(id) # {}))
    /\ [][\A p \in Procs :
            (op[p] = "settle" /\ InCall(p) /\ pc'[p] = "done"
               /\ pc[p] \notin {"reread", "st_get"})
                => result'[p].kind = "error"]_vars
\* The n tokens of the user that were set last.
NewestSet(user_id, n) ==
    LET tokens == registered[user_id] IN
    {tokens[i] : i \in {j \in DOMAIN tokens : j > Len(tokens) - n}}

\* C22: with Redis and a limit N > 0, check_jwt_max_count lets a token
\* through exactly when it is one of the N tokens of its user set last, and
\* never a token it has refused before; a check that refuses removes from
\* the hash no token that is among these N, and removes nothing only when
\* the hash holds no other token; and without Redis, or with N <= 0, every
\* token is let through and nothing changes.
C22_NewestTokens ==
    [][\A p \in Procs :
          LET token == jwt_out[p].token
              key == jwt_cache_key(token.id)
              newest == NewestSet(token.id, ENHANCED_JWT_MAX_COUNT)
              through == jwt_pc'[p] = "done" /\ jwt_out'[p].data = "data"
          IN /\ (jwt_pc[p] = "hgetall" /\ jwt_pc'[p] # "hgetall")
                  => IF Unlimited
                     THEN through /\ redis' = redis
                     ELSE /\ through <=> token \in newest
                          /\ through => token \notin refused
                          /\ jwt_pc'[p] = "done" => redis' = redis
                          /\ (~through /\ jwt_pc'[p] = "done")
                                => DOMAIN redis[key] \subseteq newest
             /\ (jwt_pc[p] = "hdel" /\ jwt_pc'[p] = "done")
                  => /\ jwt_out'[p].data = "None"
                     /\ DOMAIN redis'[key] \subseteq DOMAIN redis[key]
                     /\ newest \cap DOMAIN redis[key] \subseteq DOMAIN redis'[key]
                     /\ \A k \in DOMAIN redis : k # key => redis'[k] = redis[k]]_vars

\* The steps of the four reading methods: get_credit_by_user_id,
\* list_credits_by_user_id, get_ticket_by_id, get_credit_log_by_user_id.
Reads(p) == pc[p] \in {"get", "credits", "ticket", "list"} /\ pc'[p] = "done"

\* C23: the reads write nothing: a step of get_credit_by_user_id,
\* list_credits_by_user_id, get_ticket_by_id or get_credit_log_by_user_id
\* leaves every row of credit, credit_log and trade_ticket as it was; a get
\* for a user without a row returns None and the user still has no row; the
\* list of credits holds one model for each of the users asked for that has
\* a row, with the row's credit, and none for the others.
C23_ReadsArePure ==
    [][\A p \in Procs :
          /\ Reads(p) =>
                /\ credit' = credit
                /\ credit_log' = credit_log
                /\ trade_ticket' = trade_ticket
          /\ (pc[p] = "get" /\ pc'[p] = "done" /\ Rows(form_data[p].user_id) = {}) =>
                /\ result'[p].kind = "none"
                /\ \A i \in DOMAIN credit' : credit'[i].user_id # form_data[p].user_id
          /\ (pc[p] = "credits" /\ pc'[p] = "done") =>
                LET found == {u \in form_data[p].user_ids : Rows(u) # {}} IN
                /\ {credits'[p][i].user_id : i \in DOMAIN credits'[p]} = found
                /\ Len(credits'[p]) = Cardinality(found)
                /\ \A i \in DOMAIN credits'[p] :
                      \E j \in DOMAIN credit :
                         /\ credit[j].user_id = credits'[p][i].user_id
                         /\ credit[j].credit = credits'[p][i].credit
                /\ \A u \in form_data[p].user_ids : Rows(u) = {} =>
                      \A i \in DOMAIN credit' : credit'[i].user_id # u]_vars

\* A get for a user without a row has returned None, and a list of credits
\* asked for both users has returned the one that has a row, while the
\* ledger holds a row, a log entry and a ticket.
C23_Witness ==
    \E p, q \in Procs :
        /\ op[p] = "get" /\ pc[p] = "done" /\ result[p].kind = "none"
        /\ op[q] = "credits" /\ pc[q] = "done" /\ Len(credits[q]) = 1
        /\ Len(credit) = 1

====
